---- MODULE Spec2Model ----
(***************************************************************************)
(* Lyrics Video Creator, frontend: the VideoGenerator component (reducer,  *)
(* dispatch handlers, handleVideoGenerate) and the VideoPreview component  *)
(* (background decode effect, blob URL handles), as a state machine.       *)
(*                                                                         *)
(* One action is one browser task: a UI event handler together with the    *)
(* re-render and the effects React flushes for it, or one asynchronous     *)
(* completion (image load, fetch settlement, body read).                   *)
(*                                                                         *)
(* Representation:                                                         *)
(*  - a File object is a record [id, content]; id is the object identity   *)
(*    (a fresh File per drop), id 0 is null.                               *)
(*  - a blob URL is a positive number, 0 is null; blobUrlStore is the set  *)
(*    of URLs created and not yet revoked.                                 *)
(*  - outlineSize (slider step 0.25) is kept in quarter units: 5 is 1.25.  *)
(*  - an aspect ratio img.width / img.height is the reduced fraction       *)
(*    <<n, d>>: IEEE division is correctly rounded, so two quotients are   *)
(*    the same double exactly when the reduced fractions are equal for the *)
(*    sizes used here.                                                     *)
(*  - the Japanese message literals of the source are given in ASCII.      *)
(***************************************************************************)
EXTENDS Integers, Sequences, FiniteSets, TLC

\* ------------------------------------------------------------------ bounds
MaxEvents == 5     \* UI events handled in one run
MaxSubmits == 2    \* of which clicks on the submit button
MaxRenders == 4    \* renders of one FileUpload widget in one run

\* ------------------------------------------------------------ input domains
null == [id |-> 0, content |-> "null"]

AudioContents == {"song"}
ImageContents == {"1920x1080", "1000x500", "corrupt"}
LyricsTexts == {"", "line1\nline2"}

FieldNames == {"fontFamilyJa", "fontFamilyEn", "fontSize", "color",
               "outlineColor", "outlineSize", "bottomMargin", "enableFade"}

\* values[0] of an empty array; the fields it can reach are numbers, and no
\* slider offers a negative number
undefined == -1

\* the settings fields edited through a Slider
SliderFields == {"fontSize", "outlineSize", "bottomMargin"}

\* What the widgets of SubtitleSettingsPanel emit: one field per callback.
WidgetPatches ==
    {[fontSize |-> 33], [outlineSize |-> 5], [enableFade |-> FALSE]}

\* updateSettings takes any Partial<SubtitleSettings>.
SparsePatches ==
    {[f \in {} |-> 0],
     [fontFamilyJa |-> "Meiryo", fontFamilyEn |-> "Arial", bottomMargin |-> 150],
     [color |-> "#ff0000", outlineColor |-> "#00ff00", fontSize |-> 32]}

Patches == WidgetPatches \cup SparsePatches

Statuses == {200, 500}
BodyTexts == {"render failed", ""}
BlobTypes == {"video/mp4", "text/html"}

\* ------------------------------------------------------------------ state
VARIABLES
    state,          \* useReducer state of VideoGenerator (JobState)
    action,         \* the action object last handed to the reducer
    rendered,       \* what the last render of VideoGenerator produced
    backgroundUrl,  \* VideoPreview useState
    aspectRatio,    \* VideoPreview useState
    effect,         \* VideoPreview effect: dependency seen and cleanup owed
    mounted,        \* VideoPreview is mounted
    images,         \* Image objects whose load has not settled
    blobUrlStore,   \* blob URLs created and not revoked
    createdBy,      \* ghost: createdBy[u] is the component that created URL u
    requests,       \* invocations of handleVideoGenerate past the gate
    alerts,         \* window.alert calls
    console,        \* console.warn / console.error calls
    downloads,      \* anchor clicks
    documentBody,   \* anchors appended to document.body and not removed
    used,           \* counters: UI events, submit clicks, audio and image Files dropped
    fileUpload      \* the two FileUpload widgets: prop, thumbnail element, object URLs

vars == <<state, action, rendered, backgroundUrl, aspectRatio, effect, mounted,
          images, blobUrlStore, createdBy, requests, alerts, console, downloads,
          documentBody,
          used, fileUpload>>

storeVars == <<state, action, rendered>>
previewVars == <<backgroundUrl, aspectRatio, effect, mounted, images,
                 blobUrlStore, createdBy>>
submitVars == <<requests, alerts, console, downloads, documentBody>>

\* ------------------------------------------------------------ VideoGenerator
\* an initial state whose font size and fade flag differ from the documented ones
MutantInitialState ==
    [audioFile |-> null,
     backgroundImage |-> null,
     lyrics |-> "",
     settings |-> [fontFamilyJa |-> "Noto Sans JP",
                   fontFamilyEn |-> "Roboto",
                   fontSize |-> 16,
                   color |-> "#ffffff",
                   outlineColor |-> "#000000",
                   outlineSize |-> 0,
                   bottomMargin |-> 50,
                   enableFade |-> FALSE]]

initialState ==
    [audioFile |-> null,
     backgroundImage |-> null,
     lyrics |-> "",
     settings |-> [fontFamilyJa |-> "Noto Sans JP",
                   fontFamilyEn |-> "Roboto",
                   fontSize |-> 32,
                   color |-> "#ffffff",
                   outlineColor |-> "#000000",
                   outlineSize |-> 0,
                   bottomMargin |-> 50,
                   enableFade |-> TRUE]]

\* { ...settings, ...payload }
MutantSpread(settings, payload) ==
    [f \in DOMAIN settings |->
        IF f \in DOMAIN payload THEN payload[f] ELSE initialState.settings[f]]

Spread(settings, payload) ==
    [f \in DOMAIN settings \cup DOMAIN payload |->
        IF f \in DOMAIN payload THEN payload[f] ELSE settings[f]]

\* a reducer that keeps the old lyrics when handed the empty string
MutantReducer(s, a) ==
    CASE a.type = "SET_AUDIO_FILE" -> [s EXCEPT !.audioFile = a.payload]
      [] a.type = "SET_BACKGROUND_IMAGE" -> [s EXCEPT !.backgroundImage = a.payload]
      [] a.type = "SET_LYRICS" ->
            [s EXCEPT !.lyrics = IF a.payload = "" THEN s.lyrics ELSE a.payload]
      [] a.type = "UPDATE_SETTINGS" ->
            [s EXCEPT !.settings = Spread(s.settings, a.payload)]
      [] OTHER -> s

reducer(s, a) ==
    CASE a.type = "SET_AUDIO_FILE" -> [s EXCEPT !.audioFile = a.payload]
      [] a.type = "SET_BACKGROUND_IMAGE" -> [s EXCEPT !.backgroundImage = a.payload]
      [] a.type = "SET_LYRICS" -> [s EXCEPT !.lyrics = a.payload]
      [] a.type = "UPDATE_SETTINGS" ->
            [s EXCEPT !.settings = Spread(s.settings, a.payload)]
      [] OTHER -> s

\* JavaScript truthiness of File | null and of string
Truthy(file) == file.id # 0
TruthyString(text) == text # ""

MutantButtonDisabled(s) ==
    ~Truthy(s.audioFile) \/ ~Truthy(s.backgroundImage)

\* disabled={!state.audioFile || !state.backgroundImage || !state.lyrics}
ButtonDisabled(s) ==
    ~Truthy(s.audioFile) \/ ~Truthy(s.backgroundImage) \/ ~TruthyString(s.lyrics)

\* One render of VideoGenerator: the closure state of its handlers, the
\* submit button's disabled prop and the props handed to VideoPreview.
Render(s) ==
    [state |-> s,
     disabled |-> ButtonDisabled(s),
     preview |-> [backgroundImage |-> s.backgroundImage,
                  lyrics |-> s.lyrics,
                  settings |-> s.settings]]
\* -------------------------------------------------------------- VideoPreview
RECURSIVE GCD(_, _)
GCD(a, b) == IF b = 0 THEN a ELSE GCD(b, a % b)

\* the double a / b
Ratio(a, b) == <<a \div GCD(a, b), b \div GCD(a, b)>>

DefaultAspectRatio == Ratio(16, 9)

\* img.width and img.height of a decoded image
ImageWidth(file) ==
    CASE file.content = "1920x1080" -> 1920
      [] file.content = "1000x500" -> 1000

ImageHeight(file) ==
    CASE file.content = "1920x1080" -> 1080
      [] file.content = "1000x500" -> 500

Decodable(file) == file.content # "corrupt"

\* URL.createObjectURL: a URL never handed out before
NewUrl == Len(createdBy) + 1

\* The effect on [backgroundImage], run by React after a render whose prop
\* backgroundImage is not the one the effect last ran with: the previous
\* effect's cleanup first, then the effect body.
MutantPreviewEffect(backgroundImage) ==
    IF Truthy(backgroundImage)
    THEN /\ createdBy' = Append(createdBy, "VideoPreview")
         /\ blobUrlStore' = blobUrlStore \cup {NewUrl}
         /\ backgroundUrl' = NewUrl
         /\ images' = images \cup {[src |-> NewUrl, file |-> backgroundImage]}
         /\ effect' = [dep |-> backgroundImage, cleanup |-> NewUrl]
         /\ UNCHANGED aspectRatio
    ELSE /\ backgroundUrl' = 0
         /\ aspectRatio' = DefaultAspectRatio
         /\ blobUrlStore' = blobUrlStore \ {effect.cleanup}
         /\ effect' = [dep |-> backgroundImage, cleanup |-> 0]
         /\ UNCHANGED <<createdBy, images>>

PreviewEffect(backgroundImage) ==
    IF Truthy(backgroundImage)
    THEN /\ createdBy' = Append(createdBy, "VideoPreview")
         /\ blobUrlStore' = (blobUrlStore \ {effect.cleanup}) \cup {NewUrl}
         /\ backgroundUrl' = NewUrl
         /\ images' = images \cup {[src |-> NewUrl, file |-> backgroundImage]}
         /\ effect' = [dep |-> backgroundImage, cleanup |-> NewUrl]
         /\ UNCHANGED aspectRatio
    ELSE /\ backgroundUrl' = 0
         /\ aspectRatio' = DefaultAspectRatio
         /\ blobUrlStore' = blobUrlStore \ {effect.cleanup}
         /\ effect' = [dep |-> backgroundImage, cleanup |-> 0]
         /\ UNCHANGED <<createdBy, images>>

\* An effect without a dependency list: it runs after every render.
MutantPreviewCommit(backgroundImage) ==
    /\ UNCHANGED mounted
    /\ PreviewEffect(backgroundImage)

\* Commit of a render of VideoPreview with the given prop.
PreviewCommit(backgroundImage) ==
    /\ UNCHANGED mounted
    /\ IF backgroundImage = effect.dep
       THEN UNCHANGED <<backgroundUrl, aspectRatio, effect, images,
                        blobUrlStore, createdBy>>
       ELSE PreviewEffect(backgroundImage)

\* dispatch(a) from an event handler, the re-render and its effects
Dispatch(a) ==
    /\ mounted
    /\ action' = a
    /\ state' = reducer(state, a)
    /\ rendered' = Render(state')
    /\ PreviewCommit(state'.backgroundImage)
    /\ UNCHANGED <<submitVars, fileUpload>>

\* a File object nobody held before
NewFile(n, content) == [id |-> n + 1, content |-> content]

\* one more UI event is handled
\* a page whose controls are locked while a request is outstanding
MutantEvent == /\ mounted
               /\ used.events < MaxEvents
               /\ \A r \in DOMAIN requests : requests[r].phase = "done"

Event == /\ mounted
         /\ used.events < MaxEvents

\* FileUpload type="audio": onDrop with one accepted file
handleAudioUpload ==
    /\ Event
    /\ \E c \in AudioContents :
          Dispatch([type |-> "SET_AUDIO_FILE", payload |-> NewFile(used.audio, c)])
    /\ used' = [used EXCEPT !.events = @ + 1, !.audio = @ + 1]

\* FileUpload type="audio": handleClearFile
handleAudioClear ==
    /\ Event
    /\ Truthy(state.audioFile)
    /\ Dispatch([type |-> "SET_AUDIO_FILE", payload |-> null])
    /\ used' = [used EXCEPT !.events = @ + 1]

\* FileUpload type="image": onDrop with one accepted file
handleBackgroundUpload ==
    /\ Event
    /\ \E c \in ImageContents :
          Dispatch([type |-> "SET_BACKGROUND_IMAGE", payload |-> NewFile(used.images, c)])
    /\ used' = [used EXCEPT !.events = @ + 1, !.images = @ + 1]

\* FileUpload type="image": handleClearFile
handleBackgroundClear ==
    /\ Event
    /\ Truthy(state.backgroundImage)
    /\ Dispatch([type |-> "SET_BACKGROUND_IMAGE", payload |-> null])
    /\ used' = [used EXCEPT !.events = @ + 1]

handleLyricsChange ==
    /\ Event
    /\ \E text \in LyricsTexts :
          Dispatch([type |-> "SET_LYRICS", payload |-> text])
    /\ used' = [used EXCEPT !.events = @ + 1]

updateSettings ==
    /\ Event
    /\ \E settings \in Patches :
          Dispatch([type |-> "UPDATE_SETTINGS", payload |-> settings])
    /\ used' = [used EXCEPT !.events = @ + 1]

\* a slider's onValueChange called with an empty value list: values[0] is
\* undefined and the patch carries the key with that value
sliderEmptyValueChange ==
    /\ Event
    /\ \E field \in SliderFields :
          Dispatch([type |-> "UPDATE_SETTINGS",
                    payload |-> [f \in {field} |-> undefined]])
    /\ used' = [used EXCEPT !.events = @ + 1]

\* img.onload of an Image the effect created
ImageOnLoad ==
    \E img \in images :
        /\ Decodable(img.file)
        /\ images' = images \ {img}
        /\ aspectRatio' = IF mounted
                          THEN Ratio(ImageWidth(img.file), ImageHeight(img.file))
                          ELSE aspectRatio
        /\ blobUrlStore' = blobUrlStore \ {img.src}
        /\ UNCHANGED <<backgroundUrl, effect, mounted, createdBy>>
        /\ UNCHANGED <<storeVars, submitVars, used, fileUpload>>

\* The load of an Image fails (undecodable data, or its blob URL was revoked
\* before the data was fetched); the Image has no onerror handler.
ImageOnError ==
    \E img \in images :
        /\ ~Decodable(img.file) \/ img.src \notin blobUrlStore
        /\ images' = images \ {img}
        /\ UNCHANGED <<backgroundUrl, aspectRatio, effect, mounted,
                       blobUrlStore, createdBy>>
        /\ UNCHANGED <<storeVars, submitVars, used, fileUpload>>

\* The component tree is unmounted: the effect's cleanup runs.
Unmount ==
    /\ mounted
    /\ mounted' = FALSE
    /\ blobUrlStore' = blobUrlStore \ {effect.cleanup}
    /\ effect' = [effect EXCEPT !.cleanup = 0]
    /\ UNCHANGED <<backgroundUrl, aspectRatio, images, createdBy>>
    /\ UNCHANGED <<storeVars, submitVars, used, fileUpload>>

\* `${n}px` of a number n = a / b
Px(a, b) == [value |-> Ratio(a, b), unit |-> "px"]

\* a halving that truncates
MutantHalfPx(n) == Px(n \div 2, 1)

\* `${settings.fontSize / 2}px`
HalfPx(n) == Px(n, 2)

\* subtitleStyle of a render with the given settings prop
subtitleStyle(settings) ==
    [fontFamily |-> settings.fontFamilyJa,
     fontSize |-> Px(settings.fontSize, 1),
     color |-> settings.color,
     textShadow |-> [blur |-> Px(settings.outlineSize, 4),
                     color |-> settings.outlineColor],
     WebkitTextStroke |-> [width |-> Px(settings.outlineSize, 4),
                           color |-> settings.outlineColor],
     marginTop |-> "unset",
     marginBottom |-> Px(0, 1),
     padding |-> Px(0, 1)]

\* englishSubtitleStyle: subtitleStyle with four properties replaced
englishSubtitleStyle(settings) ==
    [subtitleStyle(settings) EXCEPT
        !.fontFamily = settings.fontFamilyEn,
        !.fontSize = HalfPx(settings.fontSize),
        !.marginTop = "0",
        !.marginBottom = Px(settings.bottomMargin, 1)]

\* `${(1 / aspectRatio) * 100}%`, as the exact quotient
paddingBottom(ratio) == [value |-> Ratio(ratio[2] * 100, ratio[1]), unit |-> "%"]

\* What VideoPreview shows: the output of its latest render, from the props
\* of the latest render of VideoGenerator and its own state.
VideoPreviewView ==
    [paddingBottom |-> paddingBottom(aspectRatio),
     img |-> backgroundUrl,
     subtitleStyle |-> subtitleStyle(rendered.preview.settings),
     englishSubtitleStyle |-> englishSubtitleStyle(rendered.preview.settings)]

\* -------------------------------------------------------- handleVideoGenerate
Digit(d) ==
    CASE d = 0 -> "0" [] d = 1 -> "1" [] d = 2 -> "2" [] d = 3 -> "3"
      [] d = 4 -> "4" [] d = 5 -> "5" [] d = 6 -> "6" [] d = 7 -> "7"
      [] d = 8 -> "8" [] d = 9 -> "9"

\* Number.prototype.toString of a non-negative integer
RECURSIVE IntToString(_)
IntToString(n) ==
    IF n < 10 THEN Digit(n) ELSE IntToString(n \div 10) \o Digit(n % 10)

\* Number.prototype.toString of q / 4
QuarterToString(q) ==
    IntToString(q \div 4) \o
        (CASE q % 4 = 0 -> "" [] q % 4 = 1 -> ".25"
           [] q % 4 = 2 -> ".5" [] q % 4 = 3 -> ".75")

\* Boolean.prototype.toString
BoolToString(b) == IF b THEN "true" ELSE "false"

Part(name, value) == [name |-> name, value |-> value]

MutantBuildFormData(s) ==
    <<Part("music_file", s.audioFile),
      Part("image_file", s.backgroundImage),
      Part("lyrics", s.lyrics),
      Part("font_size", IntToString(s.settings.fontSize)),
      Part("font_color", s.settings.color),
      Part("font_name_ja", s.settings.fontFamilyJa),
      Part("font_name_en", s.settings.fontFamilyJa),
      Part("outline_color", s.settings.outlineColor),
      Part("outline_size", QuarterToString(s.settings.outlineSize)),
      Part("bottom_margin", IntToString(s.settings.bottomMargin)),
      Part("enable_fade", BoolToString(s.settings.enableFade))>>

\* new FormData() and its eleven append calls
BuildFormData(s) ==
    <<Part("music_file", s.audioFile),
      Part("image_file", s.backgroundImage),
      Part("lyrics", s.lyrics),
      Part("font_size", IntToString(s.settings.fontSize)),
      Part("font_color", s.settings.color),
      Part("font_name_ja", s.settings.fontFamilyJa),
      Part("font_name_en", s.settings.fontFamilyEn),
      Part("outline_color", s.settings.outlineColor),
      Part("outline_size", QuarterToString(s.settings.outlineSize)),
      Part("bottom_margin", IntToString(s.settings.bottomMargin)),
      Part("enable_fade", BoolToString(s.settings.enableFade))>>

\* alert text of line 64 ("required file or lyrics is not set")
MissingInputMessage == "MissingInput"
\* alert text of line 114 ("an unknown error occurred")
UnknownErrorMessage == "UnknownError"
\* alert text of line 112 ("an error occurred: " + error.message)
ErrorOccurredMessage(message) == "ErrorOccurred: " \o message

MutantGenerationFailedMessage(status, errorText) ==
    "GenerationFailed: " \o errorText

\* message of the Error of line 91
\* ("video generation failed: " + response.status + " " + errorText)
GenerationFailedMessage(status, errorText) ==
    "GenerationFailed: " \o IntToString(status) \o " " \o errorText

\* what fetch and the body readers reject with
FetchTypeError ==
    [instanceofError |-> TRUE, name |-> "TypeError", message |-> "Failed to fetch"]
BodyTypeError ==
    [instanceofError |-> TRUE, name |-> "TypeError", message |-> "network error"]
\* new Error(message)
NewError(message) ==
    [instanceofError |-> TRUE, name |-> "Error", message |-> message]

\* response.ok
Ok(status) == status >= 200 /\ status <= 299

\* nothing read from the response yet
NothingRead == [kind |-> "none"]

MutantGate(s) == TRUE

\* The gate of handleVideoGenerate, on the state its closure holds.
Gate(s) ==
    Truthy(s.audioFile) /\ Truthy(s.backgroundImage) /\ TruthyString(s.lyrics)

\* A catch block that swallows the error.
MutantCatch(r, frame, error) ==
    /\ console' = Append(console, [req |-> r, level |-> "error", error |-> error])
    /\ requests' = [requests EXCEPT ![r] = [frame EXCEPT !.phase = "done"]]
    /\ UNCHANGED <<alerts, downloads, createdBy, blobUrlStore, documentBody>>

\* A catch block that shows nothing when the body of the response could not
\* be read.
MutantCatchBodyRead(r, frame, error) ==
    /\ console' = Append(console, [req |-> r, level |-> "error", error |-> error])
    /\ alerts' = IF frame.read.kind = "failed"
                 THEN alerts
                 ELSE Append(alerts,
                         [req |-> r,
                          text |-> IF error.instanceofError
                                   THEN ErrorOccurredMessage(error.message)
                                   ELSE UnknownErrorMessage])
    /\ requests' = [requests EXCEPT ![r] = [frame EXCEPT !.phase = "done"]]
    /\ UNCHANGED <<downloads, createdBy, blobUrlStore, documentBody>>

\* A catch block that reports the error and sends the same body once more.
MutantCatchRetry(r, frame, error) ==
    /\ console' = Append(console, [req |-> r, level |-> "error", error |-> error])
    /\ alerts' = Append(alerts,
          [req |-> r,
           text |-> IF error.instanceofError
                    THEN ErrorOccurredMessage(error.message)
                    ELSE UnknownErrorMessage])
    /\ requests' =
          IF r = Len(requests) /\ r <= MaxSubmits
          THEN Append([requests EXCEPT ![r] = [frame EXCEPT !.phase = "done"]],
                      [frame EXCEPT !.phase = "fetch", !.status = 0,
                                    !.read = NothingRead])
          ELSE [requests EXCEPT ![r] = [frame EXCEPT !.phase = "done"]]
    /\ UNCHANGED <<downloads, createdBy, blobUrlStore, documentBody>>

\* The catch block of the invocation r of handleVideoGenerate, whose locals
\* are frame.
Catch(r, frame, error) ==
    /\ console' = Append(console, [req |-> r, level |-> "error", error |-> error])
    /\ alerts' = Append(alerts,
          [req |-> r,
           text |-> IF error.instanceofError
                    THEN ErrorOccurredMessage(error.message)
                    ELSE UnknownErrorMessage])
    /\ requests' = [requests EXCEPT ![r] = [frame EXCEPT !.phase = "done"]]
    /\ UNCHANGED <<downloads, createdBy, blobUrlStore, documentBody>>

\* the <a> element of lines 99 to 102
Anchor(url) == [href |-> url, download |-> "lyrics_video.mp4", display |-> "none"]

\* A handler that clicks the anchor and leaves the URL and the anchor behind.
MutantDownloadNoRelease(r, frame, type) ==
    /\ console' = IF type # "video/mp4"
                  THEN Append(console,
                           [req |-> r, level |-> "warn", received |-> type])
                  ELSE console
    /\ createdBy' = Append(createdBy, "handleVideoGenerate")
    /\ downloads' = Append(downloads,
          [req |-> r, href |-> NewUrl, download |-> "lyrics_video.mp4",
           type |-> type])
    /\ blobUrlStore' = blobUrlStore \cup {NewUrl}
    /\ documentBody' = documentBody \cup {Anchor(NewUrl)}
    /\ requests' = [requests EXCEPT ![r] = [frame EXCEPT !.phase = "done"]]
    /\ UNCHANGED alerts

\* A handler that rejects a payload whose type is not video/mp4.
MutantDownload(r, frame, type) ==
    IF type # "video/mp4"
    THEN Catch(r, frame, NewError("unexpected content type"))
    ELSE /\ createdBy' = Append(createdBy, "handleVideoGenerate")
         /\ downloads' = Append(downloads,
               [req |-> r, href |-> NewUrl, download |-> "lyrics_video.mp4",
                type |-> type])
         /\ blobUrlStore' = (blobUrlStore \cup {NewUrl}) \ {NewUrl}
         /\ documentBody' = (documentBody \cup {Anchor(NewUrl)}) \ {Anchor(NewUrl)}
         /\ requests' = [requests EXCEPT ![r] = [frame EXCEPT !.phase = "done"]]
         /\ UNCHANGED <<alerts, console>>

\* A handler that keeps the first payload only: the download of one request
\* abandons every other request that is still outstanding.
MutantDownloadFirstWins(r, frame, type) ==
    /\ console' = IF type # "video/mp4"
                  THEN Append(console,
                           [req |-> r, level |-> "warn", received |-> type])
                  ELSE console
    /\ createdBy' = Append(createdBy, "handleVideoGenerate")
    /\ downloads' = Append(downloads,
          [req |-> r, href |-> NewUrl, download |-> "lyrics_video.mp4",
           type |-> type])
    /\ blobUrlStore' = (blobUrlStore \cup {NewUrl}) \ {NewUrl}
    /\ documentBody' = (documentBody \cup {Anchor(NewUrl)}) \ {Anchor(NewUrl)}
    /\ requests' = [q \in DOMAIN requests |->
                       IF q = r THEN [frame EXCEPT !.phase = "done"]
                       ELSE [requests[q] EXCEPT !.phase = "done"]]
    /\ UNCHANGED alerts

\* Lines 95 to 107: the warning, then the object URL, the anchor, its click,
\* and the release of both. The URL is created and revoked within the task.
Download(r, frame, type) ==
    /\ console' = IF type # "video/mp4"
                  THEN Append(console,
                           [req |-> r, level |-> "warn", received |-> type])
                  ELSE console
    /\ createdBy' = Append(createdBy, "handleVideoGenerate")
    /\ downloads' = Append(downloads,
          [req |-> r, href |-> NewUrl, download |-> "lyrics_video.mp4",
           type |-> type])
    /\ blobUrlStore' = (blobUrlStore \cup {NewUrl}) \ {NewUrl}
    /\ documentBody' = (documentBody \cup {Anchor(NewUrl)}) \ {Anchor(NewUrl)}
    /\ requests' = [requests EXCEPT ![r] = [frame EXCEPT !.phase = "done"]]
    /\ UNCHANGED alerts

\* settings.<slider field>.toString() of lines 72, 77 and 78 throws a TypeError
\* on undefined; the lines are outside the try block, so the handler's promise
\* rejects with nothing sent and nothing shown.
ToStringThrows(s) ==
    \E f \in SliderFields : s.settings[f] = undefined

\* what an asynchronous step of handleVideoGenerate leaves alone
SubmitFrame ==
    /\ UNCHANGED <<backgroundUrl, aspectRatio, effect, mounted, images>>
    /\ UNCHANGED <<storeVars, used, fileUpload>>

\* handleVideoGenerate up to its first await (the submit button's onClick).
handleVideoGenerate ==
    /\ Event
    /\ used.submits < MaxSubmits
    /\ used' = [used EXCEPT !.events = @ + 1, !.submits = @ + 1]
    /\ IF ~Gate(rendered.state)
       THEN /\ alerts' = Append(alerts, [req |-> 0, text |-> MissingInputMessage])
            /\ UNCHANGED <<requests, console, downloads, documentBody>>
       ELSE IF ToStringThrows(rendered.state)
       THEN UNCHANGED <<requests, alerts, console, downloads, documentBody>>
       ELSE /\ requests' = Append(requests,
                  [formData |-> BuildFormData(rendered.state),
                   method |-> "POST",
                   url |-> "http://localhost:8000/create_video",
                   phase |-> "fetch",
                   status |-> 0,
                   read |-> NothingRead])
            /\ UNCHANGED <<alerts, console, downloads, documentBody>>
    /\ UNCHANGED <<storeVars, previewVars, fileUpload>>

\* fetch rejects: no response was obtained.
FetchRejects ==
    \E r \in DOMAIN requests :
        /\ requests[r].phase = "fetch"
        /\ Catch(r, requests[r], FetchTypeError)
        /\ SubmitFrame

\* A request whose body is read from the live state when the response comes.
MutantFetchResolves ==
    \E r \in DOMAIN requests, status \in Statuses :
        /\ requests[r].phase = "fetch"
        /\ requests' = [requests EXCEPT
              ![r].formData = BuildFormData(rendered.state),
              ![r].status = status,
              ![r].phase = IF ~Ok(status) THEN "text" ELSE "blob"]
        /\ UNCHANGED <<alerts, console, downloads, createdBy, blobUrlStore,
                       documentBody>>
        /\ SubmitFrame

\* fetch resolves with a response; the handler goes on to read its body.
FetchResolves ==
    \E r \in DOMAIN requests, status \in Statuses :
        /\ requests[r].phase = "fetch"
        /\ requests' = [requests EXCEPT
              ![r].status = status,
              ![r].phase = IF ~Ok(status) THEN "text" ELSE "blob"]
        /\ UNCHANGED <<alerts, console, downloads, createdBy, blobUrlStore,
                       documentBody>>
        /\ SubmitFrame

\* response.text() resolves: the Error of line 91 is thrown and caught.
TextResolves ==
    \E r \in DOMAIN requests, errorText \in BodyTexts :
        /\ requests[r].phase = "text"
        /\ Catch(r, [requests[r] EXCEPT !.read = [kind |-> "text", text |-> errorText]],
                 NewError(GenerationFailedMessage(requests[r].status, errorText)))
        /\ SubmitFrame

\* response.text() or response.blob() rejects: the body could not be read.
BodyRejects ==
    \E r \in DOMAIN requests :
        /\ requests[r].phase \in {"text", "blob"}
        /\ Catch(r, [requests[r] EXCEPT !.read = [kind |-> "failed"]], BodyTypeError)
        /\ SubmitFrame

\* response.blob() resolves with a Blob of some declared type.
BlobResolves ==
    \E r \in DOMAIN requests, type \in BlobTypes :
        /\ requests[r].phase = "blob"
        /\ Download(r, [requests[r] EXCEPT !.read = [kind |-> "blob", type |-> type]],
                    type)
        /\ SubmitFrame

\* ---------------------------------------------------------------- FileUpload
\* The thumbnails of the two FileUpload widgets use object URLs that nothing
\* else reads, so the widget is followed on its own: its parent hands it a
\* file prop and renders it again whenever the store changes.
WidgetTypes == {"audio", "image"}

\* no <img> or <audio> is drawn
NoElement == [src |-> 0, loading |-> FALSE]

\* a widget before its first file: created counts its object URLs, live holds
\* those not revoked
NoFileUpload ==
    [file |-> null, drops |-> 0, renders |-> 0, created |-> 0, live |-> {},
     element |-> NoElement]

\* the files a widget of this type accepts
Accepted(type) == IF type = "audio" THEN AudioContents ELSE ImageContents

\* A render of the widget w with the prop file: getFilePreview creates an
\* object URL on every render that has a file and gives it to the element;
\* only an <img> will report its load.
getFilePreview(w, type, file) ==
    IF ~Truthy(file)
    THEN [w EXCEPT !.file = file, !.renders = @ + 1, !.element = NoElement]
    ELSE [w EXCEPT !.file = file, !.renders = @ + 1,
                   !.created = w.created + 1,
                   !.live = w.live \cup {w.created + 1},
                   !.element = [src |-> w.created + 1,
                                loading |-> (type = "image")]]

\* what a step of a FileUpload widget leaves alone
FileUploadFrame ==
    UNCHANGED <<storeVars, previewVars, submitVars, used>>

\* onDrop with one accepted file: the parent stores it and renders the widget
onDrop(type) ==
    /\ fileUpload[type].renders < MaxRenders
    /\ \E c \in Accepted(type) :
          fileUpload' = [fileUpload EXCEPT ![type] =
              getFilePreview([@ EXCEPT !.drops = @ + 1], type,
                             NewFile(fileUpload[type].drops, c))]
    /\ FileUploadFrame

\* the clear button, drawn while a file is held
handleClearFile(type) ==
    /\ fileUpload[type].renders < MaxRenders
    /\ Truthy(fileUpload[type].file)
    /\ fileUpload' = [fileUpload EXCEPT ![type] = getFilePreview(@, type, null)]
    /\ FileUploadFrame

\* the parent renders again with the same file (another part of the store
\* changed)
Rerender(type) ==
    /\ fileUpload[type].renders < MaxRenders
    /\ fileUpload' = [fileUpload EXCEPT ![type] =
                         getFilePreview(@, type, fileUpload[type].file)]
    /\ FileUploadFrame

\* onLoad of the thumbnail <img>: the handler of the latest render revokes
\* that render's object URL. An <audio> element fires no load event.
ThumbnailOnLoad ==
    /\ fileUpload["image"].element.loading
    /\ Decodable(fileUpload["image"].file)
    /\ fileUpload' = [fileUpload EXCEPT
          !["image"].live = @ \ {fileUpload["image"].element.src},
          !["image"].element.loading = FALSE]
    /\ FileUploadFrame

\* the thumbnail cannot be decoded: no handler runs
ThumbnailOnError ==
    /\ fileUpload["image"].element.loading
    /\ ~Decodable(fileUpload["image"].file)
    /\ fileUpload' = [fileUpload EXCEPT !["image"].element.loading = FALSE]
    /\ FileUploadFrame

\* ------------------------------------------------------------ specification
Init ==
    /\ state = initialState
    /\ action = [type |-> "@@INIT"]
    /\ rendered = Render(initialState)
    \* the mount effect ran with backgroundImage = null
    /\ backgroundUrl = 0
    /\ aspectRatio = DefaultAspectRatio
    /\ effect = [dep |-> null, cleanup |-> 0]
    /\ mounted = TRUE
    /\ images = {}
    /\ blobUrlStore = {}
    /\ createdBy = <<>>
    /\ requests = <<>>
    /\ alerts = <<>>
    /\ console = <<>>
    /\ downloads = <<>>
    /\ documentBody = {}
    /\ used = [events |-> 0, submits |-> 0, audio |-> 0, images |-> 0]
    /\ fileUpload = [type \in WidgetTypes |-> NoFileUpload]

Next ==
    \/ ImageOnLoad
    \/ ImageOnError
    \/ FetchRejects
    \/ FetchResolves
    \/ TextResolves
    \/ BodyRejects
    \/ BlobResolves
    \/ handleAudioUpload
    \/ handleAudioClear
    \/ handleBackgroundUpload
    \/ handleBackgroundClear
    \/ handleLyricsChange
    \/ updateSettings
    \/ handleVideoGenerate
    \/ Unmount

Spec == Init /\ [][Next]_vars

\* the FileUpload widgets under the renders their parent can cause
NextFileUpload ==
    \/ \E type \in WidgetTypes : onDrop(type)
    \/ \E type \in WidgetTypes : handleClearFile(type)
    \/ \E type \in WidgetTypes : Rerender(type)
    \/ ThumbnailOnLoad
    \/ ThumbnailOnError

SpecFileUpload == Init /\ [][NextFileUpload]_vars

\* the program with slider callbacks that may receive an empty value list
NextEmptySlider == Next \/ sliderEmptyValueChange

SpecEmptySlider == Init /\ [][NextEmptySlider]_vars
\* ------------------------------------------------------------------ claims
\* the three presence facts of JobState, stated on the store itself
AudioPresent == state.audioFile # null
BackgroundPresent == state.backgroundImage # null
LyricsNonEmpty == state.lyrics # ""

\* C1: in every reachable state the submit button is enabled exactly when
\* audioFile and backgroundImage are present and lyrics is non-empty, and the
\* render it belongs to is the render of the current state, never of an
\* earlier one.
C1_SubmitEligibility ==
    /\ rendered.state = state
    /\ ~rendered.disabled <=> (AudioPresent /\ BackgroundPresent /\ LyricsNonEmpty)
    /\ Gate(rendered.state) <=> (AudioPresent /\ BackgroundPresent /\ LyricsNonEmpty)

\* the all-present case, reached after lyrics were the last thing missing
C1_Witness ==
    /\ AudioPresent /\ BackgroundPresent /\ LyricsNonEmpty
    /\ ~rendered.disabled
    /\ action.type = "SET_LYRICS"

\* C2: an invocation of submit while one of the three is missing reports the
\* validation error, issues no request and leaves JobState unchanged.
C2_IneligibleSubmitBlocked ==
    [][(used'.submits = used.submits + 1
            /\ ~(AudioPresent /\ BackgroundPresent /\ LyricsNonEmpty))
        => /\ requests' = requests
           /\ alerts' = Append(alerts, [req |-> 0, text |-> "MissingInput"])
           /\ downloads' = downloads
           /\ state' = state]_vars

\* submit was invoked with the audio present and the lyrics missing
C2_Witness ==
    /\ used.submits = 1
    /\ AudioPresent /\ ~LyricsNonEmpty
    /\ requests = <<>>
    /\ Len(alerts) = 1

\* the decimal strings of the numbers the settings take in this model
Decimal(n) ==
    CASE n = 16 -> "16" [] n = 32 -> "32" [] n = 33 -> "33" [] n = 72 -> "72"
      [] n = 0 -> "0" [] n = 50 -> "50" [] n = 150 -> "150"

\* the decimal strings of the outline sizes, given in quarters
DecimalOfQuarters(q) == CASE q = 0 -> "0" [] q = 5 -> "1.25"

\* the values of the parts of body that are named name
PartValues(body, name) ==
    {body[i].value : i \in {j \in DOMAIN body : body[j].name = name}}

PartCount(body, name) == Cardinality({j \in DOMAIN body : body[j].name = name})

PartNames ==
    {"music_file", "image_file", "lyrics", "font_size", "font_color",
     "font_name_ja", "font_name_en", "outline_color", "outline_size",
     "bottom_margin", "enable_fade"}

\* body is the request body the claim describes for JobState s
EncodesJobState(body, s) ==
    /\ Len(body) = 11
    /\ \A i \in DOMAIN body : body[i].name \in PartNames
    /\ \A name \in PartNames : PartCount(body, name) = 1
    /\ PartValues(body, "music_file") = {s.audioFile}
    /\ PartValues(body, "image_file") = {s.backgroundImage}
    /\ PartValues(body, "lyrics") = {s.lyrics}
    /\ PartValues(body, "font_size") = {Decimal(s.settings.fontSize)}
    /\ PartValues(body, "font_color") = {s.settings.color}
    /\ PartValues(body, "font_name_ja") = {s.settings.fontFamilyJa}
    /\ PartValues(body, "font_name_en") = {s.settings.fontFamilyEn}
    /\ PartValues(body, "outline_color") = {s.settings.outlineColor}
    /\ PartValues(body, "outline_size") = {DecimalOfQuarters(s.settings.outlineSize)}
    /\ PartValues(body, "bottom_margin") = {Decimal(s.settings.bottomMargin)}
    /\ PartValues(body, "enable_fade")
          = {IF s.settings.enableFade THEN "true" ELSE "false"}

C4_PatchMerge ==
    [][(used'.events = used.events + 1 /\ action'.type = "UPDATE_SETTINGS"
            /\ used'.submits = used.submits)
        => /\ DOMAIN state'.settings = FieldNames
           /\ \A f \in FieldNames :
                 state'.settings[f] = IF f \in DOMAIN action'.payload
                                      THEN action'.payload[f]
                                      ELSE state.settings[f]]_vars

\* a font size set by one patch is still there after a later patch that does
\* not name it
C4_Witness ==
    /\ action.type = "UPDATE_SETTINGS"
    /\ action.payload = [outlineSize |-> 5]
    /\ state.settings.fontSize = 33
    /\ state.settings.outlineSize = 5
\* the aspect ratio of the asset currently in JobState, 16/9 if none
CurrentAssetRatio ==
    CASE state.backgroundImage = null -> <<16, 9>>
      [] state.backgroundImage.content = "1920x1080" -> <<16, 9>>
      [] state.backgroundImage.content = "1000x500" -> <<2, 1>>
      [] OTHER -> aspectRatio

\* C5: once every outstanding decode has completed, the preview's aspect
\* ratio is the one of the asset currently in JobState (16/9 if there is
\* none): the late result of a decode started for a replaced or cleared asset
\* never decides it.
C5_StaleDecodeDiscarded ==
    (mounted /\ images = {}) => aspectRatio = CurrentAssetRatio

\* the footprint of the alerts, downloads and console entries of request r
AlertsOf(r) == {i \in DOMAIN alerts : alerts[i].req = r}
DownloadsOf(r) == {i \in DOMAIN downloads : downloads[i].req = r}
ConsoleOf(r, level) ==
    {i \in DOMAIN console : console[i].req = r /\ console[i].level = level}

StatusText(status) == CASE status = 200 -> "200" [] status = 500 -> "500"

\* C6: a request answered with a non-success status whose body text was read
\* ends in exactly one alert that carries the status code and the body text,
\* and in no download; status 500 with body "render failed" gives both.
C6_StatusErrorSurfaced ==
    \A r \in DOMAIN requests :
        (/\ requests[r].phase = "done"
         /\ requests[r].status # 0
         /\ ~(requests[r].status \in 200..299)
         /\ requests[r].read.kind = "text")
        => /\ Cardinality(AlertsOf(r)) = 1
           /\ \A i \in AlertsOf(r) :
                 /\ alerts[i].text =
                       "ErrorOccurred: GenerationFailed: "
                          \o StatusText(requests[r].status) \o " "
                          \o requests[r].read.text
                 /\ (requests[r].status = 500 /\ requests[r].read.text = "render failed")
                       => alerts[i].text
                             = "ErrorOccurred: GenerationFailed: 500 render failed"
           /\ DownloadsOf(r) = {}

\* the backend answered 500 "render failed"
C6_Witness ==
    \E r \in DOMAIN requests :
        /\ requests[r].phase = "done"
        /\ requests[r].status = 500
        /\ requests[r].read = [kind |-> "text", text |-> "render failed"]
        /\ AlertsOf(r) # {}

\* the alert texts a non-success status can end in
StatusErrorTexts ==
    {"ErrorOccurred: GenerationFailed: " \o StatusText(st) \o " " \o t :
        st \in Statuses, t \in BodyTexts}

\* C7: a request that obtained no response ends in exactly one alert, whose
\* text is none of the non-success-status texts and names no status, caused by
\* an error of another kind than the one thrown for a status; no download.
C7_NetworkErrorSurfaced ==
    \A r \in DOMAIN requests :
        (requests[r].phase = "done" /\ requests[r].status = 0)
        => /\ Cardinality(AlertsOf(r)) = 1
           /\ \A i \in AlertsOf(r) :
                 /\ alerts[i].text \notin StatusErrorTexts
                 /\ alerts[i].text # "MissingInput"
                 /\ alerts[i].text = "ErrorOccurred: Failed to fetch"
           /\ \A i \in ConsoleOf(r, "error") : console[i].error.name # "Error"
           /\ DownloadsOf(r) = {}

\* a request failed at the network level
C7_Witness ==
    \E r \in DOMAIN requests :
        /\ requests[r].phase = "done"
        /\ requests[r].status = 0
        /\ AlertsOf(r) # {}

\* C8: a request answered with a success status whose payload arrived ends
\* in exactly one download named lyrics_video.mp4 whatever the payload's
\* declared type, and in no alert; a type other than video/mp4 adds a warning.
C8_PayloadAccepted ==
    \A r \in DOMAIN requests :
        (/\ requests[r].phase = "done"
         /\ requests[r].status \in 200..299
         /\ requests[r].read.kind = "blob")
        => /\ Cardinality(DownloadsOf(r)) = 1
           /\ \A i \in DownloadsOf(r) :
                 /\ downloads[i].download = "lyrics_video.mp4"
                 /\ downloads[i].type = requests[r].read.type
           /\ AlertsOf(r) = {}
           /\ ConsoleOf(r, "error") = {}
           /\ (requests[r].read.type # "video/mp4") <=> (ConsoleOf(r, "warn") # {})

\* a payload declared text/html was offered as a download
C8_Witness ==
    \E r \in DOMAIN requests :
        /\ requests[r].phase = "done"
        /\ requests[r].read = [kind |-> "blob", type |-> "text/html"]
        /\ DownloadsOf(r) # {}
        /\ ConsoleOf(r, "warn") # {}

\* the decode of the current background image has failed
CurrentDecodeFailed ==
    /\ state.backgroundImage # null
    /\ state.backgroundImage.content = "corrupt"
    /\ \A img \in images : img.file # state.backgroundImage

\* C9: when the dimensions of the current background image cannot be
\* determined, the preview's aspect ratio is the 16/9 default.
C9_DecodeFailureFallsBack ==
    (mounted /\ CurrentDecodeFailed) => aspectRatio = <<16, 9>>

\* the blob URLs VideoPreview created that are not revoked
LivePreviewUrls == {u \in blobUrlStore : createdBy[u] = "VideoPreview"}

\* C10: a blob URL VideoPreview created is live only while the asset it was
\* created for is the current background image, the preview is mounted and
\* the asset's dimensions have not been read; so at most one is live.
C10_PreviewHandlesReleased ==
    /\ \A u \in LivePreviewUrls :
          /\ mounted
          /\ state.backgroundImage # null
          /\ u = backgroundUrl
          /\ \/ \E img \in images :
                   img.src = u /\ img.file = state.backgroundImage
             \/ state.backgroundImage.content = "corrupt"
    /\ Cardinality(LivePreviewUrls) <= 1

\* an asset was replaced while its decode was pending: its handle is released
C10_Witness ==
    /\ Cardinality({u \in DOMAIN createdBy : createdBy[u] = "VideoPreview"}) >= 2
    /\ \E img \in images :
          img.src \notin blobUrlStore /\ img.file # state.backgroundImage
\* the decode of the current background image has completed
CurrentDecoded ==
    /\ state.backgroundImage # null
    /\ state.backgroundImage.content \in {"1920x1080", "1000x500"}
    /\ \A img \in images : img.file # state.backgroundImage

\* C11: the aspect ratio is 16/9 whenever no background image is set, and the
\* width over the height of the current image once it is decoded (1920x1080
\* gives 16/9); the frame's height is the width divided by that ratio.
C11_AspectRatio ==
    mounted =>
        /\ state.backgroundImage = null => aspectRatio = <<16, 9>>
        /\ CurrentDecoded =>
              aspectRatio = IF state.backgroundImage.content = "1920x1080"
                            THEN <<16, 9>> ELSE <<2, 1>>
        /\ VideoPreviewView.paddingBottom.value[1] * aspectRatio[1]
              = 100 * VideoPreviewView.paddingBottom.value[2] * aspectRatio[2]

\* the half computed for each font size the slider offers is exact
EverySizeHalved ==
    \A n \in 16..72 :
       /\ HalfPx(n).unit = "px"
       /\ 2 * HalfPx(n).value[1] = n * HalfPx(n).value[2]

\* C12: the secondary subtitle's font size shown is exactly half of the
\* current settings.fontSize, in px, and so is the half of every size 16..72.
C12_SecondaryHalf ==
    /\ LET shown == VideoPreviewView.englishSubtitleStyle.fontSize
       IN /\ shown.unit = "px"
          /\ 2 * shown.value[1] = state.settings.fontSize * shown.value[2]
    /\ EverySizeHalved

\* an odd font size is shown halved
C12_Witness ==
    /\ state.settings.fontSize = 33
    /\ VideoPreviewView.englishSubtitleStyle.fontSize.value = <<33, 2>>
    /\ action.type = "UPDATE_SETTINGS"
\* the step is one of the four dispatching handlers; action' is what it dispatched
DispatchStep ==
    /\ used'.events = used.events + 1
    /\ used'.submits = used.submits

EmptyPatch == [f \in {} |-> 0]

\* C13: updateSettings with the empty patch leaves the settings and the rest
\* of JobState as they were; a patch applied a second time right after itself
\* changes nothing.
C13_EmptyPatchIdempotent ==
    [][(DispatchStep /\ action'.type = "UPDATE_SETTINGS")
        => /\ (action'.payload = EmptyPatch) => state' = state
           /\ (action.type = "UPDATE_SETTINGS" /\ action.payload = action'.payload)
                 => state'.settings = state.settings]_vars

\* the empty patch was applied to settings that are not the defaults
C13_Witness ==
    /\ action.type = "UPDATE_SETTINGS"
    /\ action.payload = EmptyPatch
    /\ state.settings.outlineSize = 5
    /\ state.settings.fontFamilyEn = "Arial"

\* t is s with exactly the part that action a names replaced by a's payload
OwnPartOnly(s, a, t) ==
    /\ a.type \in {"SET_AUDIO_FILE", "SET_BACKGROUND_IMAGE", "SET_LYRICS",
                   "UPDATE_SETTINGS"}
    /\ (a.type = "SET_AUDIO_FILE") =>
          /\ t.audioFile = a.payload
          /\ t.backgroundImage = s.backgroundImage
          /\ t.lyrics = s.lyrics /\ t.settings = s.settings
    /\ (a.type = "SET_BACKGROUND_IMAGE") =>
          /\ t.backgroundImage = a.payload
          /\ t.audioFile = s.audioFile
          /\ t.lyrics = s.lyrics /\ t.settings = s.settings
    /\ (a.type = "SET_LYRICS") =>
          /\ t.lyrics = a.payload
          /\ t.audioFile = s.audioFile
          /\ t.backgroundImage = s.backgroundImage /\ t.settings = s.settings
    /\ (a.type = "UPDATE_SETTINGS") =>
          /\ t.audioFile = s.audioFile
          /\ t.backgroundImage = s.backgroundImage /\ t.lyrics = s.lyrics

\* C14: a mutation changes only its own component of JobState and stores its
\* payload verbatim (the empty string included); an action of no known type
\* leaves the state as it is.
C14_OwnPartOnly ==
    [][/\ DispatchStep => OwnPartOnly(state, action', state')
       /\ reducer(state, [type |-> "RESET", payload |-> null]) = state]_vars

\* setLyrics stored the empty string after other mutations had acted
C14_Witness ==
    /\ action.type = "SET_LYRICS"
    /\ action.payload = ""
    /\ state.lyrics = ""
    /\ used.events >= 2
    /\ state.audioFile # null
\* C15: in every reachable JobState the settings carry all eight fields and
\* none of them is undefined, whatever the panel's widgets emitted.
C15_SettingsFullyPopulated ==
    /\ DOMAIN state.settings = FieldNames
    /\ \A f \in SliderFields : state.settings[f] # undefined
\* a request was sent and its promise chain has not finished
InFlight == \E r \in DOMAIN requests : requests[r].phase # "done"

\* C16: while a request is in flight the four mutations can still be invoked
\* (setting a file, lyrics or a patch always, clearing a file whenever one is
\* set and its clear button is therefore drawn),
\* each one changes JobState in the same step, and the preview's props, the
\* preview effect and the submit button follow the new state.
C16_ReactiveWhileInFlight ==
    [][InFlight =>
         /\ (mounted /\ used.events < MaxEvents) =>
               /\ ENABLED handleAudioUpload
               /\ AudioPresent => ENABLED handleAudioClear
               /\ ENABLED handleBackgroundUpload
               /\ BackgroundPresent => ENABLED handleBackgroundClear
               /\ ENABLED handleLyricsChange
               /\ ENABLED updateSettings
         /\ DispatchStep =>
               /\ state' = reducer(state, action')
               /\ rendered'.state = state'
               /\ rendered'.preview = [backgroundImage |-> state'.backgroundImage,
                                       lyrics |-> state'.lyrics,
                                       settings |-> state'.settings]
               /\ rendered'.disabled = ButtonDisabled(state')
               /\ effect'.dep = state'.backgroundImage
               /\ requests' = requests]_vars

\* a request is still in flight and the lyrics were edited after it was sent
C16_Witness ==
    /\ Len(requests) = 1
    /\ requests[1].phase = "fetch"
    /\ action.type = "SET_LYRICS"
    /\ requests[1].formData[3].value # state.lyrics
    /\ rendered.preview.lyrics = state.lyrics
    /\ rendered.disabled
\* the step is an invocation of handleVideoGenerate
SubmitStep == used'.submits = used.submits + 1

\* C17: a submit that passes the gate sends exactly one POST to the renderer
\* endpoint; no other step sends one, a request that has ended stays ended
\* and is never sent again, so the requests never outnumber the submits.
C17_OneRequestPerSubmit ==
    [][/\ Len(requests') \in {Len(requests), Len(requests) + 1}
       /\ (Len(requests') = Len(requests) + 1) <=> (SubmitStep /\ Gate(rendered.state))
       /\ (Len(requests') = Len(requests) + 1) =>
             /\ requests'[Len(requests')].method = "POST"
             /\ requests'[Len(requests')].url = "http://localhost:8000/create_video"
             /\ requests'[Len(requests')].phase = "fetch"
       /\ \A r \in DOMAIN requests :
             /\ requests'[r].formData = requests[r].formData
             /\ (requests[r].phase = "done") => requests'[r] = requests[r]
             /\ (requests'[r].phase = "fetch") => requests[r].phase = "fetch"
       /\ Len(requests') <= used'.submits]_vars

\* the only request failed, the failure was shown, and the user went on
\* editing without another request being sent
C17_Witness ==
    /\ Len(requests) = 1
    /\ requests[1].phase = "done"
    /\ AlertsOf(1) # {}
    /\ used.submits = 1
    /\ action.type = "UPDATE_SETTINGS"
    /\ requests[1].formData[4].value # Decimal(state.settings.fontSize)
\* the outcomes shown for request r: its alerts and its downloads
OutcomeCount(r) == Cardinality(AlertsOf(r)) + Cardinality(DownloadsOf(r))

\* t extends the sequence s
IsPrefix(s, t) == Len(s) <= Len(t) /\ \A i \in DOMAIN s : t[i] = s[i]

C19_ExactlyOneOutcome ==
    \A r \in DOMAIN requests :
       /\ requests[r].phase \in {"fetch", "text", "blob", "done"}
       /\ (requests[r].phase # "done") => OutcomeCount(r) = 0
       /\ (requests[r].phase = "done") =>
             /\ OutcomeCount(r) = 1
             /\ (DownloadsOf(r) # {}) <=>
                   (Ok(requests[r].status) /\ requests[r].read.kind = "blob")
             /\ (AlertsOf(r) # {}) <=>
                   \/ requests[r].status = 0
                   \/ ~Ok(requests[r].status)
                   \/ requests[r].read.kind = "failed"

\* a success response whose body could not be read ended in an alert
C19_Witness ==
    \E r \in DOMAIN requests :
       /\ requests[r].phase = "done"
       /\ requests[r].status = 200
       /\ requests[r].read.kind = "failed"
       /\ Cardinality(AlertsOf(r)) = 1
       /\ DownloadsOf(r) = {}
\* the object URLs VideoPreview has created so far
PreviewHandles == {u \in DOMAIN createdBy : createdBy[u] = "VideoPreview"}

\* C20: setAudio and setLyrics leave the preview layout (frame height, shown
\* background, both subtitle styles) as it was, start no image decode and
\* create no object URL in the preview.
C20_LayoutIgnoresAudioAndLyrics ==
    [][(DispatchStep /\ action'.type \in {"SET_AUDIO_FILE", "SET_LYRICS"}) =>
          /\ VideoPreviewView' = VideoPreviewView
          /\ aspectRatio' = aspectRatio
          /\ backgroundUrl' = backgroundUrl
          /\ images' = images
          /\ effect' = effect
          /\ PreviewHandles' = PreviewHandles
          /\ LivePreviewUrls' = LivePreviewUrls]_vars

\* an audio file was set while a background image was shown with its decode
\* still pending and non-default settings
C20_Witness ==
    /\ action.type = "SET_AUDIO_FILE"
    /\ BackgroundPresent
    /\ backgroundUrl # 0
    /\ \E i \in images : i.src = backgroundUrl
    /\ state.settings.fontSize = 33
\* the defaults of the settings as the design documents them
DocumentedDefaults ==
    [fontFamilyJa |-> "Noto Sans JP", fontFamilyEn |-> "Roboto",
     fontSize |-> 32, color |-> "#ffffff", outlineColor |-> "#000000",
     outlineSize |-> 0, bottomMargin |-> 50, enableFade |-> TRUE]

\* C21: before any mutation JobState has no audio file, no background image,
\* empty lyrics and the documented default settings, and cannot be submitted;
\* a setting changes only in an updateSettings step whose patch names it, so
\* an untouched setting keeps its default.
C21_InitialDefaults ==
    [][/\ (used.events = 0) =>
             /\ state.audioFile = null
             /\ state.backgroundImage = null
             /\ state.lyrics = ""
             /\ state.settings = DocumentedDefaults
             /\ rendered.disabled
             /\ ~Gate(rendered.state)
       /\ \A f \in FieldNames :
             (state'.settings[f] # state.settings[f]) =>
                /\ DispatchStep
                /\ action'.type = "UPDATE_SETTINGS"
                /\ f \in DOMAIN action'.payload]_vars

\* the font size and the outline were patched, files and lyrics were set, and
\* the settings no patch named still hold their defaults
C21_Witness ==
    /\ state.settings.fontSize = 33
    /\ state.settings.outlineSize = 5
    /\ AudioPresent /\ BackgroundPresent /\ LyricsNonEmpty
    /\ \A f \in FieldNames \ {"fontSize", "outlineSize"} :
          state.settings[f] = DocumentedDefaults[f]
\* C22: the eleven parts of a request are those built from JobState at its
\* submit, and no later step (a mutation, another submit, a response) changes
\* any of them.
C22_RequestSnapshot ==
    [][/\ (SubmitStep /\ Gate(rendered.state)) =>
             /\ Len(requests'[Len(requests')].formData) = 11
             /\ requests'[Len(requests')].formData = BuildFormData(state)
       /\ \A r \in DOMAIN requests :
             /\ Len(requests'[r].formData) = 11
             /\ \A i \in 1..11 :
                   requests'[r].formData[i] = requests[r].formData[i]]_vars

\* the background image was replaced after the request was sent; the request,
\* now reading its response, still holds the image of its submit
C22_Witness ==
    /\ Len(requests) = 1
    /\ requests[1].phase \in {"text", "blob"}
    /\ action.type = "SET_BACKGROUND_IMAGE"
    /\ BackgroundPresent
    /\ requests[1].formData[2].value # state.backgroundImage
    /\ requests[1].formData[2].value # null
\* C23: the blob URL the mounted preview shows as its background has not
\* been revoked.
C23_DisplayedUrlLive ==
    (mounted /\ backgroundUrl # 0) => backgroundUrl \in blobUrlStore
\* C24: the object URLs a FileUpload widget created for its thumbnail and has
\* not revoked stay bounded: at most the one of the element now drawn, and
\* none once the file is cleared.
C24_ThumbnailHandlesBounded ==
    \A type \in WidgetTypes :
       /\ Cardinality(fileUpload[type].live) <= 1
       /\ fileUpload[type].live \subseteq {fileUpload[type].element.src}
\* the object URLs handleVideoGenerate has created so far
DownloadHandles == {u \in DOMAIN createdBy : createdBy[u] = "handleVideoGenerate"}

\* C25: after each download its object URL is revoked and its anchor removed,
\* so no download handle is live and no anchor is attached, however many
\* downloads succeeded; a handle is created only for a request that was
\* downloaded, never for one that ended in an error.
C25_DownloadHandlesReleased ==
    /\ DownloadHandles \cap blobUrlStore = {}
    /\ documentBody = {}
    /\ Cardinality(DownloadHandles) = Len(downloads)
    /\ \A i \in DOMAIN downloads :
          /\ downloads[i].href \in DownloadHandles
          /\ requests[downloads[i].req].read.kind = "blob"
          /\ AlertsOf(downloads[i].req) = {}
    /\ \A r \in DOMAIN requests :
          (AlertsOf(r) # {}) => DownloadsOf(r) = {}

\* two submits were downloaded, each through an object URL of its own
C25_Witness ==
    /\ Len(downloads) = 2
    /\ downloads[1].href # downloads[2].href
    /\ \A r \in DOMAIN requests : requests[r].phase = "done"
====
